---- MODULE Spec2Model ----
(***************************************************************************)
(* Model of src/main.py: the /webscrape handler (webscrape), the crawl     *)
(* (FastWebScraper.search_topic), the URL check (is_valid_url) and the     *)
(* PDF exporter (generate_pdf).                                            *)
(*                                                                         *)
(* Texts are sequences of one-character strings, so that strip, lower,     *)
(* replace and substring containment are computed as the code computes     *)
(* them.  Title and snippet texts are identified by numbers.               *)
(***************************************************************************)
EXTENDS Integers, Sequences, FiniteSets

\* ---------------------------------------------------------------- bounds
MaxBlocks == 2
MaxTime == 1
MaxDocResults == 20

\* ------------------------------------------------------ program constants
MinResults == 1
MaxResultsLimit == 50
num_pages == 10
TopMargin == 750
BottomMargin == 50
HeaderGap == 30
LineGap == 20
ResultGap == 40

VARIABLES
    pc,             \* position of the handler
    query,          \* request parameter
    max_results,    \* request parameter
    output_format,  \* request parameter
    driver,         \* "none" | "open" | "quit": the browser session of this call
    acquired,       \* webdriver.Chrome(...) calls that succeeded in this call
    released,       \* driver.quit() calls in this call
    fetched,        \* driver.get(...) calls in this call
    nblocks,        \* len(results) of find_elements
    idx,            \* blocks of the page already iterated
    block,          \* what the lookups on the block last iterated gave
    search_results, \* the list search_topic builds
    results,        \* search_topic(query)[:max_results]
    exc,            \* the exception in flight, if any
    response,       \* what the caller receives
    now,            \* the wall clock, in seconds
    pdfs,           \* the ./pdfs directory: file name -> file content
    pdf_path,       \* generate_pdf: the file name chosen
    y,              \* generate_pdf: the cursor
    showPages,      \* generate_pdf: c.showPage() calls made
    ri,             \* generate_pdf: results already drawn
    draws           \* generate_pdf: the drawString calls, in order

vars == <<pc, query, max_results, output_format, driver, acquired, released,
          fetched, nblocks, idx, block, search_results, results, exc,
          response, now, pdfs, pdf_path, y, showPages, ri, draws>>

reqVars == <<query, max_results, output_format>>
crawlVars == <<driver, acquired, released, fetched, nblocks, idx, block,
               search_results>>
pdfVars == <<pdf_path, y, showPages, ri, draws>>

\* ------------------------------------------------------------------ texts
Min(a, b) == IF a <= b THEN a ELSE b
Max(a, b) == IF a >= b THEN a ELSE b

Whitespace == {" "}

LowerChar(c) ==
    CASE c = "A" -> "a" [] c = "B" -> "b" [] c = "C" -> "c" [] c = "D" -> "d"
      [] c = "F" -> "f" [] c = "M" -> "m" [] c = "O" -> "o" [] c = "P" -> "p"
      [] OTHER -> c

\* str.lower()
Lower(s) == [i \in 1..Len(s) |-> LowerChar(s[i])]

\* pat in s
Contains(s, pat) ==
    \E i \in 0..(Len(s) - Len(pat)) : SubSeq(s, i + 1, i + Len(pat)) = pat

\* not query or len(query.strip()) == 0
IsBlank(s) == \A i \in 1..Len(s) : s[i] \in Whitespace

\* query.replace(' ', '_')
ReplaceSpaces(s) == [i \in 1..Len(s) |-> IF s[i] = " " THEN "_" ELSE s[i]]

allowed_domains ==
    { <<".", "c", "o", "m">>, <<".", "o", "r", "g">>, <<".", "n", "e", "t">>,
      <<".", "e", "d", "u">>, <<".", "g", "o", "v">>, <<".", "i", "o">> }

is_valid_url(url) == \E d \in allowed_domains : Contains(Lower(url), d)

\* seq[:m]
SliceNoTruncation(s, m) == s
SliceTail(s, m) == SubSeq(s, Len(s) - Min(m, Len(s)) + 1, Len(s))
Slice(s, m) ==
    IF m >= 0 THEN SubSeq(s, 1, Min(m, Len(s)))
              ELSE SubSeq(s, 1, Max(0, Len(s) + m))

\* ----------------------------------------------------------------- inputs
Queries == { <<>>, <<" ">>, <<"a", " ", "b">> }
MaxResultsInputs == {0, 1, 50, 51}
Formats == { <<"j", "s", "o", "n">>, <<"p", "d", "f">>, <<"P", "D", "F">> }

UrlCom == <<"A", ".", "C", "O", "M">>
UrlXyz == <<"b", ".", "x", "y", "z">>

Found(v) == [ok |-> TRUE, val |-> v]
NoTitle == [ok |-> FALSE, val |-> 0]
NoUrl == [ok |-> FALSE, val |-> <<>>]
NoSnippet == [ok |-> FALSE, val |-> 0]

\* What the three find_element lookups of one block can give.
BlockKinds ==
    { [title |-> Found(1), url |-> Found(UrlCom), snippet |-> Found(1)],
      [title |-> Found(2), url |-> Found(UrlXyz), snippet |-> Found(2)],
      [title |-> NoTitle,  url |-> Found(UrlCom), snippet |-> Found(1)],
      [title |-> Found(1), url |-> NoUrl,         snippet |-> Found(1)],
      [title |-> Found(1), url |-> Found(UrlCom), snippet |-> NoSnippet] }

BlockOk(b) == b.title.ok /\ b.url.ok /\ b.snippet.ok

RecordOf(b) == [title |-> b.title.val, url |-> b.url.val, description |-> b.snippet.val]

NoBlock == [title |-> NoTitle, url |-> NoUrl, snippet |-> NoSnippet]

NoExc == [origin |-> "none", status |-> 0]
NoResponse == [status |-> 0, results |-> <<>>, total_results |-> 0, pdf_path |-> <<>>]
NoPath == <<>>

\* ------------------------------------------------------------------- Init
Init ==
    /\ pc = "idle"
    /\ query = <<>>
    /\ max_results = MaxResultsLimit
    /\ output_format = <<"j", "s", "o", "n">>
    /\ driver = "none"
    /\ acquired = 0
    /\ released = 0
    /\ fetched = 0
    /\ nblocks = 0
    /\ idx = 0
    /\ block = NoBlock
    /\ search_results = <<>>
    /\ results = <<>>
    /\ exc = NoExc
    /\ response = NoResponse
    /\ now = 0
    /\ pdfs = [p \in {} |-> <<>>]
    /\ pdf_path = NoPath
    /\ y = TopMargin
    /\ showPages = 0
    /\ ri = 0
    /\ draws = <<>>

\* ------------------------------------------------------------ the handler
\* A request arrives; the handler is not awaiting anything, so calls are serial.
Request ==
    /\ pc \in {"idle", "responded"}
    /\ \E q \in Queries, m \in MaxResultsInputs, f \in Formats :
          /\ query' = q
          /\ max_results' = m
          /\ output_format' = f
    /\ pc' = "validate"
    /\ driver' = "none"
    /\ acquired' = 0
    /\ released' = 0
    /\ fetched' = 0
    /\ nblocks' = 0
    /\ idx' = 0
    /\ block' = NoBlock
    /\ search_results' = <<>>
    /\ results' = <<>>
    /\ exc' = NoExc
    /\ response' = NoResponse
    /\ pdf_path' = NoPath
    /\ y' = TopMargin
    /\ showPages' = 0
    /\ ri' = 0
    /\ draws' = <<>>
    /\ UNCHANGED <<now, pdfs>>

InvalidInput(q, m) == IsBlank(q) \/ m < MinResults \/ m > MaxResultsLimit

\* The two checks; each raise HTTPException(400) is inside the try.
Validate ==
    /\ pc = "validate"
    /\ IF InvalidInput(query, max_results)
         THEN /\ exc' = [origin |-> "HTTPException", status |-> 400]
              /\ pc' = "except"
         ELSE /\ exc' = exc
              /\ pc' = "acquire"
    /\ UNCHANGED <<reqVars, crawlVars, results, response, now, pdfs, pdfVars>>

\* except Exception as e: raise HTTPException(status_code=500, ...)
ExceptHandler ==
    /\ pc = "except"
    /\ response' = [status |-> 500, results |-> <<>>, total_results |-> 0,
                    pdf_path |-> NoPath]
    /\ pc' = "responded"
    /\ UNCHANGED <<reqVars, crawlVars, results, exc, now, pdfs, pdfVars>>

\* ------------------------------------------------------------- search_topic
\* search_results = []; driver = webdriver.Chrome(...)   (before the try)
Acquire ==
    /\ pc = "acquire"
    /\ search_results' = <<>>
    /\ driver' = "open"
    /\ acquired' = acquired + 1
    /\ pc' = "get"
    /\ UNCHANGED <<reqVars, released, fetched, nblocks, idx, block, results,
                   exc, response, now, pdfs, pdfVars>>

\* webdriver.Chrome(...) raises: nothing to release, the handler's except runs.
AcquireRaise ==
    /\ pc = "acquire"
    /\ exc' = [origin |-> "webdriver.Chrome", status |-> 0]
    /\ pc' = "except"
    /\ UNCHANGED <<reqVars, crawlVars, results, response, now, pdfs, pdfVars>>

\* driver.get(search_url): the one fetch of the call.
DriverGet ==
    /\ pc = "get"
    /\ driver = "open"
    /\ fetched' = fetched + 1
    /\ pc' = "find"
    /\ UNCHANGED <<reqVars, driver, acquired, released, nblocks, idx, block,
                   search_results, results, exc, response, now, pdfs, pdfVars>>

DriverGetRaiseNoFinally ==
    /\ pc = "get"
    /\ driver = "open"
    /\ fetched' = fetched + 1
    /\ exc' = [origin |-> "driver.get", status |-> 0]
    /\ pc' = "except"
    /\ UNCHANGED <<reqVars, driver, acquired, released, nblocks, idx, block,
                   search_results, results, response, now, pdfs, pdfVars>>

\* driver.get raises (fetch error, timeout): no except in search_topic, the
\* finally runs and the exception goes on to the handler.
DriverGetRaise ==
    /\ pc = "get"
    /\ driver = "open"
    /\ fetched' = fetched + 1
    /\ exc' = [origin |-> "driver.get", status |-> 0]
    /\ pc' = "finally"
    /\ UNCHANGED <<reqVars, driver, acquired, released, nblocks, idx, block,
                   search_results, results, response, now, pdfs, pdfVars>>

\* results = driver.find_elements(By.CLASS_NAME, "result__body")
FindElements ==
    /\ pc = "find"
    /\ driver = "open"
    /\ \E n \in 0..MaxBlocks :
          /\ nblocks' = n
          /\ pc' = IF n = 0 THEN "finally" ELSE "loop"
    /\ idx' = 0
    /\ UNCHANGED <<reqVars, driver, acquired, released, fetched, block,
                   search_results, results, exc, response, now, pdfs, pdfVars>>

FindElementsRaise ==
    /\ pc = "find"
    /\ driver = "open"
    /\ exc' = [origin |-> "driver.find_elements", status |-> 0]
    /\ pc' = "finally"
    /\ UNCHANGED <<reqVars, crawlVars, results, response, now, pdfs, pdfVars>>

ExtractPartial(sr, b) == Append(sr, RecordOf(b))

\* The body of the for loop: three lookups, then append; any exception: continue.
Extract(sr, b) == IF BlockOk(b) THEN Append(sr, RecordOf(b)) ELSE sr

\* One iteration of `for result in results`.
ExtractBlock ==
    /\ pc = "loop"
    /\ driver = "open"
    /\ idx < nblocks
    /\ \E b \in BlockKinds :
          /\ block' = b
          /\ search_results' = Extract(search_results, b)
    /\ idx' = idx + 1
    /\ pc' = IF idx + 1 = nblocks THEN "finally" ELSE "loop"
    /\ UNCHANGED <<reqVars, driver, acquired, released, fetched, nblocks,
                   results, exc, response, now, pdfs, pdfVars>>

\* finally: driver.quit(); then return search_results, or the exception goes on.
Finally ==
    /\ pc = "finally"
    /\ driver' = "quit"
    /\ released' = released + 1
    /\ pc' = IF exc = NoExc THEN "slice" ELSE "except"
    /\ UNCHANGED <<reqVars, acquired, fetched, nblocks, idx, block, search_results,
                   results, exc, response, now, pdfs, pdfVars>>

\* results = scraper.search_topic(query)[:max_results]; then the format test.
TakeSlice ==
    /\ pc = "slice"
    /\ results' = Slice(search_results, max_results)
    /\ pc' = IF Lower(output_format) = <<"p", "d", "f">> THEN "pdf_begin" ELSE "json"
    /\ UNCHANGED <<reqVars, crawlVars, exc, response, now, pdfs, pdfVars>>

\* return JSONResponse(content={query, results, total_results})
RespondJson ==
    /\ pc = "json"
    /\ response' = [status |-> 200, results |-> results,
                    total_results |-> Len(results), pdf_path |-> NoPath]
    /\ pc' = "responded"
    /\ UNCHANGED <<reqVars, crawlVars, results, exc, now, pdfs, pdfVars>>

\* ------------------------------------------------------------ generate_pdf
Line(k, yy, f, i) == [page |-> k, y |-> yy, field |-> f, item |-> i]

\* timestamp, pdf_filename, Canvas, the header line, y -= 30
PdfBegin ==
    /\ pc = "pdf_begin"
    /\ pdf_path' = <<ReplaceSpaces(query), now>>
    /\ showPages' = 0
    /\ draws' = <<Line(1, TopMargin, "header", 0)>>
    /\ y' = TopMargin - HeaderGap
    /\ ri' = 0
    /\ pc' = IF Len(results) = 0 THEN "pdf_save" ELSE "pdf_loop"
    /\ UNCHANGED <<reqVars, crawlVars, results, exc, response, now, pdfs>>

PdfResultNoReset ==
    /\ pc = "pdf_loop"
    /\ ri < Len(results)
    /\ LET brk == y < BottomMargin
           k == showPages + 1 + (IF brk THEN 1 ELSE 0)
       IN  /\ showPages' = showPages + (IF brk THEN 1 ELSE 0)
           /\ draws' = draws \o << Line(k, y, "title", ri + 1),
                                   Line(k, y - LineGap, "url", ri + 1),
                                   Line(k, y - LineGap - LineGap, "description", ri + 1) >>
           /\ y' = y - LineGap - LineGap - ResultGap
    /\ ri' = ri + 1
    /\ pc' = IF ri + 1 = Len(results) THEN "pdf_save" ELSE "pdf_loop"
    /\ UNCHANGED <<reqVars, crawlVars, results, exc, response, now, pdfs, pdf_path>>

\* One iteration of `for result in results`: the page break, then three lines.
PdfResult ==
    /\ pc = "pdf_loop"
    /\ ri < Len(results)
    /\ LET brk == y < BottomMargin
           y0 == IF brk THEN TopMargin ELSE y
           k == showPages + 1 + (IF brk THEN 1 ELSE 0)
       IN  /\ showPages' = showPages + (IF brk THEN 1 ELSE 0)
           /\ draws' = draws \o << Line(k, y0, "title", ri + 1),
                                   Line(k, y0 - LineGap, "url", ri + 1),
                                   Line(k, y0 - LineGap - LineGap, "description", ri + 1) >>
           /\ y' = y0 - LineGap - LineGap - ResultGap
    /\ ri' = ri + 1
    /\ pc' = IF ri + 1 = Len(results) THEN "pdf_save" ELSE "pdf_loop"
    /\ UNCHANGED <<reqVars, crawlVars, results, exc, response, now, pdfs, pdf_path>>

\* What c.save() leaves in the file: the lines drawn (a line names the result
\* it renders by its position in the list) and the pages; the page in progress
\* is always non-empty, so there is one page more than showPage calls made.
Document == [header |-> query, lines |-> draws, pages |-> showPages + 1]

\* c.save(): the file is created, or replaced when the name exists.
PdfSave ==
    /\ pc = "pdf_save"
    /\ pdfs' = [p \in DOMAIN pdfs \cup {pdf_path} |->
                   IF p = pdf_path THEN Document ELSE pdfs[p]]
    /\ pc' = "pdf_return"
    /\ UNCHANGED <<reqVars, crawlVars, results, exc, response, now, pdfVars>>

\* return {"message": "PDF generated", "pdf_path": pdf_path}
RespondPdf ==
    /\ pc = "pdf_return"
    /\ response' = [status |-> 200, results |-> <<>>, total_results |-> 0,
                    pdf_path |-> pdf_path]
    /\ pc' = "responded"
    /\ UNCHANGED <<reqVars, crawlVars, results, exc, now, pdfs, pdfVars>>

\* ------------------------------------------------------------------ clock
Tick ==
    /\ now < MaxTime
    /\ now' = now + 1
    /\ UNCHANGED <<pc, reqVars, crawlVars, results, exc, response, pdfs, pdfVars>>

\* --------------------------------------------------------- specifications
Next ==
    \/ Request
    \/ Validate
    \/ ExceptHandler
    \/ Acquire
    \/ AcquireRaise
    \/ DriverGet
    \/ DriverGetRaise
    \/ FindElements
    \/ FindElementsRaise
    \/ ExtractBlock
    \/ Finally
    \/ TakeSlice
    \/ RespondJson
    \/ PdfBegin
    \/ PdfResult
    \/ PdfSave
    \/ RespondPdf
    \/ Tick

Spec == Init /\ [][Next]_vars

\* generate_pdf alone, on any list of up to MaxDocResults results.
DocResult(i) == [title |-> i, url |-> IF i % 2 = 0 THEN UrlCom ELSE UrlXyz,
                 description |-> i]

InitPdf ==
    /\ pc = "pdf_begin"
    /\ query \in {q \in Queries : ~IsBlank(q)}
    /\ max_results = MaxResultsLimit
    /\ output_format = <<"p", "d", "f">>
    /\ driver = "none"
    /\ acquired = 0
    /\ released = 0
    /\ fetched = 0
    /\ nblocks = 0
    /\ idx = 0
    /\ block = NoBlock
    /\ search_results = <<>>
    /\ \E n \in 0..MaxDocResults : results = [i \in 1..n |-> DocResult(i)]
    /\ exc = NoExc
    /\ response = NoResponse
    /\ now \in 0..MaxTime
    /\ pdfs = [p \in {} |-> <<>>]
    /\ pdf_path = NoPath
    /\ y = TopMargin
    /\ showPages = 0
    /\ ri = 0
    /\ draws = <<>>

NextPdf ==
    \/ PdfBegin
    \/ PdfResult
    \/ PdfSave

SpecPdf == InitPdf /\ [][NextPdf]_vars

\* ------------------------------------------------------------------ claims
\* The handler has answered with a result collection (JSON body or document).
Returned == pc = "responded" /\ response.status = 200

\* The JSON body's results, or the list generate_pdf rendered.
ReturnedCollection ==
    IF response.pdf_path = NoPath THEN response.results ELSE results

AfterCrawl == {"slice", "json", "pdf_begin", "pdf_loop", "pdf_save", "pdf_return"}

CrawlRaised == exc.origin \in {"driver.get", "driver.find_elements"}

\* C1: whenever the handler returns a result collection, the number of results
\* returned, and the total_results reported with a JSON body, is at most
\* min(max_results, 50).
C1_ResultCountBounded ==
    Returned =>
        /\ Len(ReturnedCollection) <= Min(max_results, MaxResultsLimit)
        /\ response.pdf_path = NoPath =>
              response.total_results = Len(ReturnedCollection)

C1_Witness ==
    /\ Returned
    /\ Len(search_results) > max_results
    /\ Len(ReturnedCollection) = max_results

\* C2: every result of the returned collection has a URL that passes
\* is_valid_url (contains one of the six allowed substrings, case-insensitive).
C2_ReturnedUrlsValid ==
    Returned =>
        \A i \in 1..Len(ReturnedCollection) : is_valid_url(ReturnedCollection[i].url)

\* C3: the returned collection is the first min(max_results, 50, len(C))
\* elements of the crawl's collection C in the same order, and C only ever
\* grows at its end, by the record of the block just read.
C3_PrefixInDiscoveryOrder ==
    /\ [](Returned =>
            ReturnedCollection =
                SubSeq(search_results, 1,
                       Min(Min(max_results, MaxResultsLimit), Len(search_results))))
    /\ [][pc = "loop" =>
            \/ search_results' = search_results
            \/ search_results' = Append(search_results, RecordOf(block'))]_vars

C3_Witness ==
    /\ Returned
    /\ max_results = 1
    /\ Len(search_results) = 2
    /\ search_results[1] # search_results[2]
    /\ ReturnedCollection = <<search_results[1]>>

\* C4: a crawl that returns has fetched every one of its num_pages pages
\* unless its collection reached the cap of 50 first.
C4_FetchesUntilCapOrLastPage ==
    pc = "slice" => fetched = num_pages \/ Len(search_results) >= MaxResultsLimit

\* C5: an invalid input (blank topic, max_results outside 1..50) is answered
\* with status 400, and no browser session, fetch or document write happened.
C5_InvalidInputIs400 ==
    (pc = "responded" /\ InvalidInput(query, max_results)) =>
        /\ response.status = 400
        /\ acquired = 0
        /\ fetched = 0
        /\ response.pdf_path = NoPath

\* C6 as stated: the saved document has ceil(N/C) pages and the first result
\* of every page is drawn at the top margin.
ResultHeight == LineGap + LineGap + ResultGap
PageCapacity == (TopMargin - BottomMargin) \div ResultHeight + 1
CeilDiv(a, b) == (a + b - 1) \div b

FirstTitleOn(lines, k) ==
    CHOOSE j \in 1..Len(lines) :
        /\ lines[j].page = k
        /\ lines[j].field = "title"
        /\ \A h \in 1..(j - 1) : ~(lines[h].page = k /\ lines[h].field = "title")

C6_CeilPagesTopStart ==
    pc = "pdf_return" =>
        LET d == pdfs[pdf_path]
            n == Len(results)
        IN  /\ d.pages = CeilDiv(n, PageCapacity)
            /\ \A k \in 1..d.pages : d.lines[FirstTitleOn(d.lines, k)].y = TopMargin

\* C6 amended: the saved document has max(1, ceil(N/9)) pages; after the header
\* at the top margin of page 1, result i is drawn once, in order, on page
\* ceil(i/9), 80 units below its predecessor on the page, starting at 720 on
\* page 1 and at the top margin (750) on every later page; before a result is
\* drawn the cursor is below the bottom margin exactly at a page boundary.
PageOf(i) == (i - 1) \div PageCapacity + 1
YOf(i) ==
    (IF PageOf(i) = 1 THEN TopMargin - HeaderGap ELSE TopMargin)
        - ((i - 1) % PageCapacity) * ResultHeight

C6_Pagination ==
    /\ pc = "pdf_loop" =>
          /\ (y < BottomMargin) <=> (ri > 0 /\ ri % PageCapacity = 0)
          /\ showPages = (IF ri = 0 THEN 0 ELSE (ri - 1) \div PageCapacity)
    /\ pc = "pdf_return" =>
        LET d == pdfs[pdf_path]
            n == Len(results)
        IN  /\ d.pages = Max(1, CeilDiv(n, PageCapacity))
            /\ Len(d.lines) = 1 + 3 * n
            /\ d.lines[1] = Line(1, TopMargin, "header", 0)
            /\ \A i \in 1..n :
                  /\ d.lines[3 * i - 1] = Line(PageOf(i), YOf(i), "title", i)
                  /\ d.lines[3 * i] = Line(PageOf(i), YOf(i) - LineGap, "url", i)
                  /\ d.lines[3 * i + 1] =
                        Line(PageOf(i), YOf(i) - LineGap - LineGap, "description", i)

C6_Witness ==
    /\ pc = "pdf_return"
    /\ Len(results) = 2 * PageCapacity + 1
    /\ pdfs[pdf_path].pages = 3
    /\ pdfs[pdf_path].lines[3 * Len(results) - 1].y = TopMargin

\* C7: once search_topic has been left, by return or by exception, the browser
\* session was acquired once and quit once (or never acquired, when starting it
\* failed); and after the quit there is no further fetch or block read.
C7_SessionReleased ==
    /\ [](acquired <= 1 /\ released <= acquired)
    /\ []((pc \in AfterCrawl \/ Returned \/ (pc \in {"except", "responded"} /\ CrawlRaised))
            => acquired = 1 /\ released = 1 /\ driver = "quit")
    /\ [][(driver = "quit" /\ pc' # "validate")
            => fetched' = fetched /\ idx' = idx /\ block' = block /\ driver' = "quit"]_vars

C7_Witness ==
    /\ pc = "responded"
    /\ exc.origin = "driver.get"
    /\ acquired = 1
    /\ released = 1

\* C8: the export directory only gains files: every file stays, unchanged.
C8_DirectoryAppendOnly ==
    [][\A p \in DOMAIN pdfs : p \in DOMAIN pdfs' /\ pdfs'[p] = pdfs[p]]_vars

\* C9: a failure of the page fetch is not surfaced: the caller still gets a
\* result collection.
C9_FetchFailureSwallowed ==
    (pc = "responded" /\ exc.origin = "driver.get") => response.status = 200

\* C10: a block with a failed lookup leaves the collection as it was, a block
\* whose three lookups succeed appends its full record, and either way the loop
\* goes on to the next block with no exception in flight.
C10_FailedBlockSkipped ==
    [][(pc = "loop" /\ idx' = idx + 1) =>
          /\ search_results' =
                IF BlockOk(block') THEN Append(search_results, RecordOf(block'))
                                   ELSE search_results
          /\ exc' = NoExc
          /\ pc' = IF idx' < nblocks THEN "loop" ELSE "finally"]_vars

C10_Witness ==
    /\ Returned
    /\ nblocks = 2
    /\ idx = 2
    /\ BlockOk(block)
    /\ search_results = <<RecordOf(block)>>

====
